---- MODULE Spec2Model ----
(***************************************************************************)
(* Model of src/ai-analyzer.py: one run of main(), from the argument check *)
(* to sys.exit, with analyze_with_ai and send_notification.                *)
(*                                                                         *)
(* JSON values are records: a JSON mapping is the record of its keys, any  *)
(* other JSON value v is [json_type |-> <type of v>].  Python strings are  *)
(* tuples of their pieces (an f-string is the tuple of its literal parts   *)
(* and its substituted values); the report is the sequence of its lines.   *)
(***************************************************************************)
EXTENDS Integers, Sequences, FiniteSets, TLC

\* Longest findings array (Shape B) / longest pair of check lists (Shape A).
MaxFindings == 2

-----------------------------------------------------------------------------
(* Python helpers *)

\* dict.get(k, default)
Get(d, k, default) == IF k \in DOMAIN d THEN d[k] ELSE default

\* isinstance(v, dict)
IsMapping(v) == "json_type" \notin DOMAIN v

SeqsUpTo(S, n) == UNION {[1..k -> S] : k \in 0..n}

-----------------------------------------------------------------------------
(* Input documents *)

\* Keys every modelled finding carries and the program never reads.
Base == [class_uid |-> 2004]

StatusParts == {Base} \cup {[status_id |-> s] : s \in 1..3}
MessageParts == {Base, [message |-> "c1"]}
ResourceParts ==
    {Base,
     [resources |-> <<>>],
     [resources |-> <<[type |-> "bucket"]>>],
     [resources |-> <<[uid |-> "r1"]>>]}

\* Elements of a Shape B findings array that are mappings.
Findings == {s @@ m @@ r @@ Base :
                s \in StatusParts, m \in MessageParts, r \in ResourceParts}

\* A failing finding that carries every field analyze_with_ai reads.
FullFinding ==
    [class_uid |-> 2004, status_id |-> 2, message |-> "c2", severity |-> "High",
     metadata |-> [product |-> [feature |-> [uid |-> "s3_check"]]],
     cloud |-> [region |-> "us-east-1"],
     resources |-> <<[uid |-> "r2"]>>]

\* An element of the findings array that is not a mapping.
ScalarElement == [json_type |-> "number"]

ShapeBDocs == {[findings |-> fs] : fs \in SeqsUpTo(Findings \cup {FullFinding, ScalarElement}, MaxFindings)}

\* Elements of the Shape A check lists.
Checks == {[check_name |-> "c1"],
           [check_name |-> "c1", resource |-> "r1", file_path |-> "f.tf"]}

ShapeADocs ==
    {[results |-> [failed_checks |-> pair[1], passed_checks |-> pair[2]]] :
        pair \in {q \in SeqsUpTo(Checks, MaxFindings) \X SeqsUpTo(Checks, MaxFindings) :
                     Len(q[1]) + Len(q[2]) <= MaxFindings}}

\* A mapping with neither key.
OtherMappingDocs == {[version |-> "1"]}

NonMappingDocs == {[json_type |-> t] : t \in {"array", "string", "number", "null"}}

Documents == ShapeBDocs \cup ShapeADocs \cup OtherMappingDocs \cup NonMappingDocs

\* No document loaded yet.
Unset == [json_type |-> "unset"]

-----------------------------------------------------------------------------
(* Pure parts of main() and analyze_with_ai() *)

\* line 102: the findings of a mapping, [] for anything else
AllFindings(doc) == IF IsMapping(doc) THEN Get(doc, "findings", <<>>) ELSE <<>>

\* Bug: every finding that did not pass is taken as failed.
IsFailNotPass(f) == ~("status_id" \in DOMAIN f /\ f.status_id = 1)

\* line 104: f.get('status_id') == 2
IsFail(f) == "status_id" \in DOMAIN f /\ f.status_id = 2
\* line 105: f.get('status_id') == 1
IsPass(f) == "status_id" \in DOMAIN f /\ f.status_id = 1

FailedChecks(all) == SelectSeq(all, IsFail)
PassedChecks(all) == SelectSeq(all, IsPass)

\* line 107
TotalChecks(failed, passed) == Len(failed) + Len(passed)

\* finding.get('resources', [{}]) of lines 18 and 144, before the [0]
ResourcesOf(finding) == Get(finding, "resources", <<Base>>)
\* the [0] raises IndexError on an empty list
ResourcesRaises(finding) == Len(ResourcesOf(finding)) = 0
\* resources.get('uid', 'Unknown') of lines 23, 147, 157
ResourceUid(finding) == Get(ResourcesOf(finding)[1], "uid", "Unknown")
\* finding.get('message', 'Unknown') of lines 22, 148, 158
CheckTitle(finding) == Get(finding, "message", "Unknown")

\* lines 16-47: the fields substituted into the prompt
Prompt(finding) ==
    [check_id |-> Get(Get(Get(Get(finding, "metadata", Base),
                              "product", Base), "feature", Base), "uid", "Unknown"),
     check_title |-> CheckTitle(finding),
     resource_uid |-> ResourceUid(finding),
     region |-> Get(Get(finding, "cloud", Base), "region", "N/A"),
     severity |-> Get(finding, "severity", "Unknown")]

\* line 66
Fallback(finding) == <<"Check failed: ", CheckTitle(finding)>>

\* Text of a well-formed model response.
ModelText == <<"## 1. EXPLANATION ...">>

\* What can happen inside one analyze_with_ai call.
\*   client_error  boto3.client raises (line 9)
\*   config_error  int()/float() of the environment value raises (lines 12-13)
\*   invoke_error  invoke_model raises (line 50)
\*   decode_error  body.read()/json.loads raises (line 62)
\*   field_error   an expected key or index is missing in the response (line 63)
\*   ok            the response carries the text
AnalysisOutcomes == {"client_error", "config_error", "invoke_error",
                     "decode_error", "field_error", "ok"}

\* analyze_with_ai(finding): [raised |-> exception escapes, text |-> return value]
analyze_with_ai(finding, outcome) ==
    IF outcome \in {"client_error", "config_error"} \/ ResourcesRaises(finding)
    THEN [raised |-> TRUE, text |-> <<>>]
    ELSE IF outcome = "ok"
         THEN [raised |-> FALSE, text |-> ModelText]
         ELSE [raised |-> FALSE, text |-> Fallback(finding)]

\* lines 138-140
ReportHeader(failed) ==
    << <<"NIST 800-53 COMPLIANCE VIOLATIONS REPORT">>,
       <<"=", 70>>,
       <<"Total Violations: ", Len(failed), "\n">> >>

\* lines 156-160
ReportSection(i, finding, text) ==
    << <<"\nVIOLATION ", i, ":">>,
       <<"Resource: ", ResourceUid(finding)>>,
       <<"Check: ", CheckTitle(finding)>>,
       <<"\n", text>>,
       <<"-", 70>> >>

\* lines 121-130
SuccessSummary(total) == <<"NIST 800-53 Compliance: All ", total, " checks passed!">>
SuccessDetails(total, passed) ==
    << <<"NIST 800-53 COMPLIANCE SCAN - SUCCESS">>,
       <<"Total Checks Run: ", total>>,
       <<"Passed: ", Len(passed)>>,
       <<"Failed: 0">>,
       <<"Status: DEPLOYMENT APPROVED">> >>

\* line 183
FailureSummary(failed) ==
    <<"NIST 800-53: ", Len(failed), " violation(s) - AI fixes provided">>

\* What can happen inside send_notification (all of it inside the try).
NotifyOutcomes == {"client_error", "no_topic", "publish_error", "ok"}

\* Bug: no try/except around the client and the publish call.
send_notification_raises(published, outcome, summary, details) ==
    IF outcome = "ok"
    THEN [raised |-> FALSE,
          published |-> Append(published, [Subject |-> summary, Message |-> details])]
    ELSE IF outcome = "no_topic"
         THEN [raised |-> FALSE, published |-> published]
         ELSE [raised |-> TRUE, published |-> published]

\* send_notification(summary, details):
\* [raised |-> exception escapes, published |-> the topic's messages afterwards].
\* The slices [:100] and [:262000] leave the modelled texts whole.
send_notification(published, outcome, summary, details) ==
    IF outcome = "ok"
    THEN [raised |-> FALSE,
          published |-> Append(published, [Subject |-> summary, Message |-> details])]
    ELSE [raised |-> FALSE, published |-> published]

\* What can happen in the S3 step (lines 168-180, all of it inside the try).
PersistOutcomes == {"client_error", "no_bucket", "put_error", "ok"}

\* The local file and the S3 object before the run: an earlier run's report.
EarlierFinding == [class_uid |-> 2004, status_id |-> 2, message |-> "c0",
                   resources |-> <<[uid |-> "r0"]>>]
EarlierReport ==
    ReportHeader(<<EarlierFinding>>) \o ReportSection(1, EarlierFinding, ModelText)

-----------------------------------------------------------------------------
(* State *)

VARIABLES
    pc,               \* position in main()
    argc,             \* len(sys.argv)
    prowler_results,  \* the decoded document
    parsed,           \* lines 94-107 completed
    failed_checks, passed_checks, total_checks,
    idx,              \* completed iterations of the loop of line 142
    report_lines,
    calls,            \* the findings analyze_with_ai was called with, in order
    prompts,          \* the prompts sent with invoke_model, in order
    file,             \* content of compliance-report.txt
    s3,               \* content of compliance-reports/latest-report.txt
    persist,          \* outcome of the S3 step, "none" before it
    notify,           \* outcome of send_notification, "none" before it
    sns,              \* messages published to the topic
    error,            \* "none", or how the run failed
    exit_code         \* -1 while the process runs

vars == <<pc, argc, prowler_results, parsed, failed_checks, passed_checks,
          total_checks, idx, report_lines, calls, prompts, file, s3, persist,
          notify, sns, error, exit_code>>

Init ==
    /\ pc = "start"
    /\ argc \in {1, 2}
    /\ prowler_results = Unset
    /\ parsed = FALSE
    /\ failed_checks = <<>>
    /\ passed_checks = <<>>
    /\ total_checks = 0
    /\ idx = 0
    /\ report_lines = <<>>
    /\ calls = <<>>
    /\ prompts = <<>>
    /\ file = EarlierReport
    /\ s3 = EarlierReport
    /\ persist = "none"
    /\ notify = "none"
    /\ sns = <<>>
    /\ error = "none"
    /\ exit_code = -1

\* sys.exit(code), or an uncaught exception (the interpreter exits with 1)
Exit(code, how) ==
    /\ pc' = "done"
    /\ exit_code' = code
    /\ error' = how

-----------------------------------------------------------------------------
(* Steps of main() *)

\* lines 88-92
CheckArgs ==
    /\ pc = "start"
    /\ IF argc < 2
       THEN Exit(1, "usage")
       ELSE /\ pc' = "read"
            /\ UNCHANGED <<error, exit_code>>
    /\ UNCHANGED <<argc, prowler_results, parsed, failed_checks, passed_checks,
                   total_checks, idx, report_lines, calls, prompts, file, s3,
                   persist,
                   notify, sns>>

\* Bug: the read error is reported and the run goes on with an empty document.
ReadFailsSwallowed ==
    /\ pc = "read"
    /\ error' = "read"
    /\ prowler_results' = [version |-> "1"]
    /\ pc' = "classify"
    /\ UNCHANGED <<argc, parsed, failed_checks, passed_checks, total_checks,
                   idx, report_lines, calls, prompts, file, s3, persist, notify,
                   sns, exit_code>>

\* lines 94-99: the file cannot be opened or decoded
ReadFails ==
    /\ pc = "read"
    /\ Exit(1, "read")
    /\ UNCHANGED <<argc, prowler_results, parsed, failed_checks, passed_checks,
                   total_checks, idx, report_lines, calls, prompts, file, s3,
                   persist,
                   notify, sns>>

\* lines 94-96: json.load returns the document
ReadResults ==
    /\ pc = "read"
    /\ \E doc \in Documents : prowler_results' = doc
    /\ pc' = "classify"
    /\ UNCHANGED <<argc, parsed, failed_checks, passed_checks, total_checks,
                   idx, report_lines, calls, prompts, file, s3,
                   persist, notify, sns,
                   error, exit_code>>

\* Bug (or a stricter parser): a document that is not a mapping is rejected.
ClassifyFailFast ==
    /\ pc = "classify"
    /\ LET all == AllFindings(prowler_results) IN
       IF ~IsMapping(prowler_results) \/ \E i \in 1..Len(all) : ~IsMapping(all[i])
       THEN /\ Exit(1, "AttributeError")
            /\ UNCHANGED <<parsed, failed_checks, passed_checks, total_checks>>
       ELSE /\ failed_checks' = FailedChecks(all)
            /\ passed_checks' = PassedChecks(all)
            /\ total_checks' = TotalChecks(FailedChecks(all), PassedChecks(all))
            /\ parsed' = TRUE
            /\ pc' = "checked"
            /\ UNCHANGED <<error, exit_code>>
    /\ UNCHANGED <<argc, prowler_results, idx, report_lines, calls, prompts, file,
                   s3, persist, notify, sns>>

\* lines 101-115
Classify ==
    /\ pc = "classify"
    /\ LET all == AllFindings(prowler_results) IN
       IF \E i \in 1..Len(all) : ~IsMapping(all[i])
       THEN \* f.get on a non-mapping element: AttributeError
            /\ Exit(1, "AttributeError")
            /\ UNCHANGED <<parsed, failed_checks, passed_checks, total_checks>>
       ELSE /\ failed_checks' = FailedChecks(all)
            /\ passed_checks' = PassedChecks(all)
            /\ total_checks' = TotalChecks(FailedChecks(all), PassedChecks(all))
            /\ parsed' = TRUE
            /\ pc' = "checked"
            /\ UNCHANGED <<error, exit_code>>
    /\ UNCHANGED <<argc, prowler_results, idx, report_lines, calls, prompts, file, s3,
                   persist, notify, sns>>

\* lines 117-132
AllPassed ==
    /\ pc = "checked"
    /\ Len(failed_checks) = 0
    /\ \E outcome \in NotifyOutcomes :
          LET n == send_notification(sns, outcome, SuccessSummary(total_checks),
                                     SuccessDetails(total_checks, passed_checks)) IN
          /\ notify' = outcome
          /\ sns' = n.published
          /\ IF n.raised THEN Exit(1, "send_notification raised") ELSE Exit(0, "none")
    /\ UNCHANGED <<argc, prowler_results, parsed, failed_checks, passed_checks,
                   total_checks, idx, report_lines, calls, prompts, file, s3, persist>>

\* lines 134-140
StartReport ==
    /\ pc = "checked"
    /\ Len(failed_checks) # 0
    /\ report_lines' = ReportHeader(failed_checks)
    /\ pc' = "loop"
    /\ UNCHANGED <<argc, prowler_results, parsed, failed_checks, passed_checks,
                   total_checks, idx, calls, prompts, file, s3, persist, notify, sns,
                   error, exit_code>>

\* lines 142-160: one iteration of the loop
AnalyzeNext ==
    /\ pc = "loop"
    /\ idx < Len(failed_checks)
    /\ LET finding == failed_checks[idx + 1] IN
       IF ResourcesRaises(finding)
       THEN \* line 144
            /\ Exit(1, "IndexError")
            /\ UNCHANGED <<idx, report_lines, calls, prompts>>
       ELSE \E outcome \in AnalysisOutcomes :
            \* the environment is the same for every call of the run
            /\ outcome = "config_error" => idx = 0
            /\ calls' = Append(calls, finding)
            /\ prompts' = IF outcome \in {"client_error", "config_error"}
                          THEN prompts
                          ELSE Append(prompts, Prompt(finding))
            /\ LET r == analyze_with_ai(finding, outcome) IN
               IF r.raised
               THEN /\ Exit(1, "analyze_with_ai raised")
                    /\ UNCHANGED <<idx, report_lines>>
               ELSE /\ report_lines' =
                          report_lines \o ReportSection(idx + 1, finding, r.text)
                    /\ idx' = idx + 1
                    /\ pc' = IF idx + 1 = Len(failed_checks) THEN "save" ELSE "loop"
                    /\ UNCHANGED <<error, exit_code>>
    /\ UNCHANGED <<argc, prowler_results, parsed, failed_checks, passed_checks,
                   total_checks, file, s3, persist, notify, sns>>

\* Bug: the file is opened in append mode.
SaveReportAppend ==
    /\ pc = "save"
    /\ \/ /\ file' = file \o report_lines
          /\ pc' = "persist"
          /\ UNCHANGED <<error, exit_code>>
       \/ /\ Exit(1, "OSError")
          /\ UNCHANGED file
    /\ UNCHANGED <<argc, prowler_results, parsed, failed_checks, passed_checks,
                   total_checks, idx, report_lines, calls, prompts, s3, persist,
                   notify, sns>>

\* lines 162-165
SaveReport ==
    /\ pc = "save"
    /\ \/ /\ file' = report_lines
          /\ pc' = "persist"
          /\ UNCHANGED <<error, exit_code>>
       \/ \* open() raises
          /\ Exit(1, "OSError")
          /\ UNCHANGED file
    /\ UNCHANGED <<argc, prowler_results, parsed, failed_checks, passed_checks,
                   total_checks, idx, report_lines, calls, prompts, s3, persist, notify,
                   sns>>

\* Bug: no try/except around the S3 client and put_object.
PersistReportRaises ==
    /\ pc = "persist"
    /\ \E outcome \in PersistOutcomes :
          /\ persist' = outcome
          /\ s3' = IF outcome = "ok" THEN report_lines ELSE s3
          /\ IF outcome \in {"client_error", "put_error"}
             THEN Exit(1, "S3 error")
             ELSE /\ pc' = "notify"
                  /\ UNCHANGED <<error, exit_code>>
    /\ UNCHANGED <<argc, prowler_results, parsed, failed_checks, passed_checks,
                   total_checks, idx, report_lines, calls, prompts, file, notify,
                   sns>>

\* lines 167-180
PersistReport ==
    /\ pc = "persist"
    /\ \E outcome \in PersistOutcomes :
          /\ persist' = outcome
          /\ s3' = IF outcome = "ok" THEN report_lines ELSE s3
    /\ pc' = "notify"
    /\ UNCHANGED <<argc, prowler_results, parsed, failed_checks, passed_checks,
                   total_checks, idx, report_lines, calls, prompts, file, notify, sns,
                   error, exit_code>>

\* lines 182-197
NotifyFailure ==
    /\ pc = "notify"
    /\ \E outcome \in NotifyOutcomes :
          LET n == send_notification(sns, outcome, FailureSummary(failed_checks),
                                     report_lines) IN
          /\ notify' = outcome
          /\ sns' = n.published
          /\ IF n.raised THEN Exit(1, "send_notification raised") ELSE Exit(1, "none")
    /\ UNCHANGED <<argc, prowler_results, parsed, failed_checks, passed_checks,
                   total_checks, idx, report_lines, calls, prompts, file, s3, persist>>

Next ==
    \/ CheckArgs
    \/ ReadFails
    \/ ReadResults
    \/ Classify
    \/ AllPassed
    \/ StartReport
    \/ AnalyzeNext
    \/ SaveReport
    \/ PersistReport
    \/ NotifyFailure

Spec == Init /\ [][Next]_vars

TypeOK ==
    /\ pc \in {"start", "read", "classify", "checked", "loop", "save",
               "persist", "notify", "done"}
    /\ exit_code \in {-1, 0, 1}
    /\ idx \in 0..Len(failed_checks)

-----------------------------------------------------------------------------
(* Properties *)

Finished == pc = "done"
NFailed == Len(failed_checks)

\* The decoded document is a JSON value other than a mapping.
NonMapping == prowler_results # Unset /\ ~IsMapping(prowler_results)
ShapeA == IsMapping(prowler_results) /\ "results" \in DOMAIN prowler_results
ShapeB == IsMapping(prowler_results) /\ "findings" \in DOMAIN prowler_results

\* The run got past the write of compliance-report.txt.
Saved == pc \in {"persist", "notify"} \/ (Finished /\ persist # "none")

\* Number of elements of fs whose status_id is s.
CountStatus(fs, s) ==
    Cardinality({i \in 1..Len(fs) : "status_id" \in DOMAIN fs[i] /\ fs[i].status_id = s})

\* The texts recorded in the report, one per completed iteration.
RecordedText(i) == report_lines[Len(ReportHeader(failed_checks)) + 5 * (i - 1) + 4][2]

\* The report a run with these findings and recorded texts assembles.
RECURSIVE Sections(_)
Sections(n) ==
    IF n = 0
    THEN <<>>
    ELSE Sections(n - 1) \o ReportSection(n, failed_checks[n], RecordedText(n))
OwnReport == ReportHeader(failed_checks) \o Sections(NFailed)

\* C1: a run that was given a path and whose input parsed exits with 0 exactly
\* when there is no failing finding and with 1 exactly when there is one,
\* whatever the analysis calls, the S3 step and the notification did.
C1_ExitCode ==
    (Finished /\ argc >= 2 /\ parsed) =>
        /\ exit_code = 0 <=> NFailed = 0
        /\ exit_code = 1 <=> NFailed > 0

\* A run with two failing findings, one analysed and one on the fallback text,
\* whose S3 put and whose publish both failed.
C1_Witness ==
    /\ Finished /\ parsed /\ NFailed = 2 /\ idx = 2
    /\ RecordedText(1) = ModelText
    /\ RecordedText(2) = Fallback(failed_checks[2])
    /\ persist = "put_error" /\ notify = "publish_error"
    /\ exit_code = 1

\* C2: for a Shape A document the total is the length of both check lists and
\* the failing findings are failed_checks, one for one and in order (so one
\* failed check gives failed = 1 and exit code 1).
C2_ShapeA ==
    (Finished /\ parsed /\ ShapeA) =>
        LET r == prowler_results.results IN
        /\ total_checks = Len(r.failed_checks) + Len(r.passed_checks)
        /\ NFailed = Len(r.failed_checks)
        /\ \A i \in 1..NFailed :
              Get(failed_checks[i], "check_name", "Unknown") = r.failed_checks[i].check_name
        /\ Len(r.failed_checks) > 0 => exit_code = 1

\* C3: a run whose parse succeeded calls analyze_with_ai once per failing
\* finding, in the order of the findings, and never when there is none.
C3_OneCallPerFailure ==
    (Finished /\ parsed) => calls = failed_checks

\* C4: analyze_with_ai never raises: every call returns a text that the loop
\* records, the model's or the fallback "Check failed: <title>".
C4_NeverRaises ==
    /\ error # "analyze_with_ai raised"
    /\ Len(calls) = idx
    /\ \A i \in 1..idx : RecordedText(i) \in {ModelText, Fallback(failed_checks[i])}

C6_NoCrash ==
    (Finished /\ parsed) => error # "IndexError"

\* C7 as stated: a decoded value that is not a mapping ends the run with exit
\* code 1 and without the zero-failures branch.
C7_Original ==
    (Finished /\ NonMapping) => (exit_code = 1 /\ notify = "none")

\* C7 amended: a decoded value that is not a mapping is taken as a document
\* without findings: nothing is counted or analysed, the success notification
\* is attempted and the run exits with 0.
C7_NonMappingPasses ==
    (Finished /\ NonMapping) =>
        /\ parsed /\ total_checks = 0 /\ NFailed = 0 /\ Len(passed_checks) = 0
        /\ calls = <<>>
        /\ notify # "none"
        /\ error = "none" /\ exit_code = 0

\* A JSON array was read and the run ended on the zero-failures branch.
C7_Witness ==
    /\ Finished /\ prowler_results = [json_type |-> "array"]
    /\ notify = "ok" /\ Len(sns) = 1 /\ exit_code = 0

\* C8: a failed S3 step is followed by the notification attempt and exit code
\* 1; a failed notification leaves the exit code to the failure count.
C8_RemoteFailuresAbsorbed ==
    /\ persist \in {"client_error", "put_error"} =>
          /\ pc \in {"notify", "done"}
          /\ Finished => (notify # "none" /\ error = "none" /\ exit_code = 1)
    /\ notify \in {"client_error", "publish_error"} =>
          /\ Finished /\ error = "none"
          /\ exit_code = IF NFailed = 0 THEN 0 ELSE 1

\* The S3 client could not be made, the publish failed, the run exited with 1.
C8_Witness ==
    /\ Finished /\ persist = "client_error" /\ notify = "publish_error"
    /\ exit_code = 1 /\ file = report_lines

\* C9: when the input cannot be read or decoded the run ends at once with 1:
\* no analysis call, no report file, no S3 put, no notification.
C9_ReadErrorIsFatal ==
    error = "read" =>
        /\ Finished /\ exit_code = 1 /\ ~parsed
        /\ calls = <<>> /\ prompts = <<>>
        /\ file = EarlierReport /\ s3 = EarlierReport /\ persist = "none"
        /\ notify = "none" /\ sns = <<>>

\* A run that was given a path and could not read it.
C9_Witness ==
    Finished /\ argc >= 2 /\ error = "read" /\ exit_code = 1

\* C10: for a Shape B document failed counts the elements with status_id 2,
\* passed those with status_id 1, total is their sum; any other element is in
\* none of them.
C10_StatusCounts ==
    (parsed /\ ShapeB) =>
        /\ NFailed = CountStatus(prowler_results.findings, 2)
        /\ Len(passed_checks) = CountStatus(prowler_results.findings, 1)
        /\ total_checks = Len(passed_checks) + NFailed
        /\ \A i \in 1..NFailed : failed_checks[i].status_id = 2
        /\ \A i \in 1..Len(passed_checks) : passed_checks[i].status_id = 1

\* One finding with status_id 2 and one with status_id 3: failed 1, total 1.
C10_Witness ==
    /\ parsed /\ ShapeB
    /\ CountStatus(prowler_results.findings, 2) = 1
    /\ CountStatus(prowler_results.findings, 3) = 1
    /\ NFailed = 1 /\ total_checks = 1
====
